---- MODULE Spec2Model ----
(***************************************************************************)
(* Model of the SparkyFitness Garmin microservice                          *)
(* (SparkyFitnessGarmin/main.py): the MFA state store and the two login    *)
(* endpoints, the health-and-wellness metric orchestrator, the activity    *)
(* detail expander, and the data sanitizer they share.                     *)
(***************************************************************************)
EXTENDS Integers, Sequences, FiniteSets, TLC

VARIABLES
    now,              \* time.time(), in seconds
    ticks,            \* number of clock advances so far (bounds the run)
    MFA_STATE_STORE,  \* dict: challenge token -> [state, ts]
    nextToken,        \* the next uuid4 value: tokens are never reused
    inflight,         \* resume_login requests suspended in the body read: body -> count
    lastResp,         \* the last response an auth endpoint sent
    resumeCalls,      \* per token: calls of the Provider's resume_login with its state
    resumed,          \* tokens whose Provider resume_login has succeeded
    hPc,              \* health_and_wellness request: "idle", "fetch" or "done"
    hReq,             \* its request body
    health_data,      \* its health_data dict (None before the login)
    hOutcomes,        \* what the Provider did at each fetch made so far
    hResp,            \* its response
    hCalls,           \* Provider calls made for it, the login included
    aPc,              \* activities_and_workouts request: "idle", "detail" or "done"
    aReq,             \* its request body
    converted_activities,  \* the listed activities, named and unit-converted
    detailed_activities,   \* the records the detail loop has appended
    aOutcomes,        \* per activity expanded: what each of its six fetches did
    aWorkouts,        \* what the workouts stage did ("" before it)
    aResp,            \* its response
    aCalls,           \* Provider calls made for it, the login included
    sPc,              \* sanitizer run: "idle", "cleaned" or "recleaned"
    sIn,              \* the value clean_garmin_data is given
    sOut,             \* what it returns
    sTwice,           \* what it returns when given sOut
    loopTask,         \* the request whose handler the event loop runs, or 0
    rPc,              \* per request: where its handler is
    rEndpoint,        \* per request: the route it was sent to
    rCalls            \* per request: Provider calls its handler has yet to make

mfaVars == <<now, ticks, MFA_STATE_STORE, nextToken, inflight, lastResp,
             resumeCalls, resumed>>

healthVars == <<hPc, hReq, health_data, hOutcomes, hResp, hCalls>>

actVars == <<aPc, aReq, converted_activities, detailed_activities, aOutcomes,
             aWorkouts, aResp, aCalls>>

sanVars == <<sPc, sIn, sOut, sTwice>>

loopVars == <<loopTask, rPc, rEndpoint, rCalls>>

restVars == <<sanVars, loopVars>>

dataVars == <<healthVars, actVars, restVars>>

vars == <<mfaVars, dataVars>>

----------------------------------------------------------------------------
(* Bounds *)

MaxTokens == 2
MaxTicks == 1
NumResume == 2
MaxDays == 2
MaxDisturb == 1
MaxActivities == 2
MaxLen == 2
NumRequests == 2
MaxProviderCalls == 2

Tokens == 1..MaxTokens

\* client_state values a caller can send: "" (missing), an issued token, or
\* a string that is no token of the store
NoToken == 0
BogusToken == -1

----------------------------------------------------------------------------
(* Python values as the handlers hold them *)

None == [t |-> "None"]
Bool(b) == [t |-> "bool", b |-> b]
\* a number n/d: an int (d = 1, f = FALSE) or a float
Num(n) == [t |-> "num", n |-> n, d |-> 1, f |-> FALSE]
Float(n, d) == [t |-> "num", n |-> n, d |-> d, f |-> TRUE]
\* float('nan'), float('inf'), float('-inf')
NonFinite(name) == [t |-> "nonfinite", name |-> name]
Str(s) == [t |-> "str", s |-> s]
List(xs) == [t |-> "list", xs |-> xs]
\* a dict in insertion order: a sequence of [k, v] with distinct keys
Dict(kv) == [t |-> "dict", kv |-> kv]
KV(k, v) == [k |-> k, v |-> v]

\* v == 0 in Python: the ints and floats of value zero, and False
EqZero(v) == (v.t = "num" /\ v.n = 0) \/ (v.t = "bool" /\ ~v.b)

\* bool(v) in Python
Truthy(v) ==
    CASE v.t = "None" -> FALSE
      [] v.t = "bool" -> v.b
      [] v.t = "num" -> v.n # 0
      [] v.t = "str" -> v.s # ""
      [] v.t = "list" -> v.xs # <<>>
      [] v.t = "dict" -> v.kv # <<>>
      [] OTHER -> TRUE

HasKey(dict, k) == \E i \in 1..Len(dict.kv) : dict.kv[i].k = k

\* dict.get(k): None when the key is missing
Get(dict, k) ==
    IF HasKey(dict, k)
    THEN dict.kv[CHOOSE i \in 1..Len(dict.kv) : dict.kv[i].k = k].v
    ELSE None

\* pairs with (k, v) set as dict[k] = v sets it
SetKey(kv, k, v) ==
    IF \E i \in 1..Len(kv) : kv[i].k = k
    THEN [i \in 1..Len(kv) |-> IF kv[i].k = k THEN KV(k, v) ELSE kv[i]]
    ELSE Append(kv, KV(k, v))

----------------------------------------------------------------------------
(* json.loads and json.dumps *)

\* s[i:i+1] with i counted from 1: "" past the end
Ch(s, i) == IF i >= 1 /\ i <= Len(s) THEN SubSeq(s, i, i) ELSE ""

\* the slice of s from its i-th to its j-th character, cut at the end of s
Slice(s, i, j) ==
    IF i > Len(s) THEN "" ELSE SubSeq(s, i, IF j > Len(s) THEN Len(s) ELSE j)

Whitespace == {" ", "\t", "\n", "\r"}
DigitChars == "0123456789"
IsDigit(c) == \E k \in 1..10 : c = SubSeq(DigitChars, k, k)
DigitVal(c) == (CHOOSE k \in 1..10 : c = SubSeq(DigitChars, k, k)) - 1

RECURSIVE SkipWs(_, _)
SkipWs(s, i) == IF Ch(s, i) \in Whitespace THEN SkipWs(s, i + 1) ELSE i

\* the end of the run of digits that starts at i
RECURSIVE ScanDigits(_, _)
ScanDigits(s, i) == IF IsDigit(Ch(s, i)) THEN ScanDigits(s, i + 1) ELSE i

\* the value of the digits s[i..j-1], appended to the value acc
RECURSIVE DigitsValue(_, _, _, _)
DigitsValue(s, i, j, acc) ==
    IF i >= j THEN acc
    ELSE DigitsValue(s, i + 1, j, 10 * acc + DigitVal(Ch(s, i)))

RECURSIVE Pow10(_)
Pow10(k) == IF k <= 0 THEN 1 ELSE 10 * Pow10(k - 1)

Parsed(v, i) == [ok |-> TRUE, v |-> v, i |-> i]
ParseError == [ok |-> FALSE, v |-> None, i |-> 0]

\* NUMBER_RE = (-?(?:0|[1-9]\d*))(\.\d+)?([eE][-+]?\d+)? matched at i: the
\* ends of its three groups, then the int or float the match stands for
IntEnd(s, i0) ==
    IF Ch(s, i0) = "0" THEN i0 + 1
    ELSE IF IsDigit(Ch(s, i0)) THEN ScanDigits(s, i0)
    ELSE i0

FracEnd(s, intEnd) ==
    IF Ch(s, intEnd) = "." /\ IsDigit(Ch(s, intEnd + 1))
    THEN ScanDigits(s, intEnd + 1)
    ELSE intEnd

ExpDigits(s, fracEnd) ==
    IF Ch(s, fracEnd + 1) \in {"+", "-"} THEN fracEnd + 2 ELSE fracEnd + 1

ExpEnd(s, fracEnd, e0) ==
    IF Ch(s, fracEnd) \in {"e", "E"} /\ IsDigit(Ch(s, e0))
    THEN ScanDigits(s, e0)
    ELSE fracEnd

FloatOf(mantissa, fracLen, expVal, expNeg, expEnd) ==
    IF expNeg
    THEN Parsed(Float(mantissa, Pow10(fracLen + expVal)), expEnd)
    ELSE Parsed(Float(mantissa * Pow10(expVal), Pow10(fracLen)), expEnd)

NumberOf(s, sign, i0, intEnd, fracEnd, e0, expEnd) ==
    IF intEnd = i0 THEN ParseError
    ELSE IF fracEnd = intEnd /\ expEnd = fracEnd
    THEN Parsed(Num(sign * DigitsValue(s, i0, intEnd, 0)), intEnd)
    ELSE FloatOf(sign * DigitsValue(s, intEnd + 1, fracEnd,
                                    DigitsValue(s, i0, intEnd, 0)),
                 IF fracEnd > intEnd THEN fracEnd - intEnd - 1 ELSE 0,
                 DigitsValue(s, e0, expEnd, 0),
                 expEnd > fracEnd /\ Ch(s, fracEnd + 1) = "-",
                 expEnd)

MatchExp(s, sign, i0, intEnd, fracEnd, e0) ==
    NumberOf(s, sign, i0, intEnd, fracEnd, e0, ExpEnd(s, fracEnd, e0))

MatchFrac(s, sign, i0, intEnd, fracEnd) ==
    MatchExp(s, sign, i0, intEnd, fracEnd, ExpDigits(s, fracEnd))

MatchInt(s, sign, i0, intEnd) ==
    MatchFrac(s, sign, i0, intEnd, FracEnd(s, intEnd))

MatchNumber(s, i) ==
    IF Ch(s, i) = "-"
    THEN MatchInt(s, -1, i + 1, IntEnd(s, i + 1))
    ELSE MatchInt(s, 1, i, IntEnd(s, i))

\* scanstring from i, the position after the opening quote.  Of the escapes
\* only \" \\ \/ \n \r \t are decoded: strings of the model hold no \b, \f, \u
RECURSIVE ScanString(_, _, _)
ScanString(s, i, acc) ==
    LET c == Ch(s, i)
        esc == Ch(s, i + 1)
    IN  IF c = "" \/ c \in {"\t", "\n", "\r"} THEN ParseError
        ELSE IF c = "\"" THEN Parsed(Str(acc), i + 1)
        ELSE IF c = "\\"
        THEN IF esc \in {"\"", "\\", "/"} THEN ScanString(s, i + 2, acc \o esc)
             ELSE IF esc = "n" THEN ScanString(s, i + 2, acc \o "\n")
             ELSE IF esc = "r" THEN ScanString(s, i + 2, acc \o "\r")
             ELSE IF esc = "t" THEN ScanString(s, i + 2, acc \o "\t")
             ELSE ParseError
        ELSE ScanString(s, i + 1, acc \o c)

\* the number matched at i, or else one of the three constants
NumberOrConstant(m, s, i) ==
    IF m.ok THEN m
    ELSE IF Slice(s, i, i + 2) = "NaN" THEN Parsed(NonFinite("NaN"), i + 3)
    ELSE IF Slice(s, i, i + 7) = "Infinity"
    THEN Parsed(NonFinite("Infinity"), i + 8)
    ELSE IF Slice(s, i, i + 8) = "-Infinity"
    THEN Parsed(NonFinite("-Infinity"), i + 9)
    ELSE ParseError

RECURSIVE ScanOnce(_, _), ParseObject(_, _, _), ParseArray(_, _, _)

\* scan_once: the JSON value that starts at i
ScanOnce(s, i) ==
    LET c == Ch(s, i)
    IN  IF c = "" THEN ParseError
        ELSE IF c = "\"" THEN ScanString(s, i + 1, "")
        ELSE IF c = "{"
        THEN LET j == IF Ch(s, i + 1) \in Whitespace THEN SkipWs(s, i + 1) ELSE i + 1
             IN  IF Ch(s, i + 1) # "\"" /\ Ch(s, j) = "}" THEN Parsed(Dict(<<>>), j + 1)
                 ELSE IF Ch(s, j) # "\"" THEN ParseError
                 ELSE ParseObject(s, j + 1, <<>>)
        ELSE IF c = "["
        THEN LET j == SkipWs(s, i + 1)
             IN  IF Ch(s, j) = "]" THEN Parsed(List(<<>>), j + 1)
                 ELSE ParseArray(s, j, <<>>)
        ELSE IF c = "n" /\ Slice(s, i, i + 3) = "null" THEN Parsed(None, i + 4)
        ELSE IF c = "t" /\ Slice(s, i, i + 3) = "true" THEN Parsed(Bool(TRUE), i + 4)
        ELSE IF c = "f" /\ Slice(s, i, i + 4) = "false" THEN Parsed(Bool(FALSE), i + 5)
        ELSE NumberOrConstant(MatchNumber(s, i), s, i)

\* JSONObject from i, the position after the opening quote of a key
ParseObject(s, i, pairs) ==
    LET key == ScanString(s, i, "")
        colon == IF Ch(s, key.i) # ":" THEN SkipWs(s, key.i) ELSE key.i
        value == ScanOnce(s, SkipWs(s, colon + 1))
        j == SkipWs(s, value.i)
        k == SkipWs(s, j + 1)
    IN  IF ~key.ok \/ Ch(s, colon) # ":" THEN ParseError
        ELSE IF ~value.ok THEN ParseError
        ELSE IF Ch(s, j) = "}"
        THEN Parsed(Dict(SetKey(pairs, key.v.s, value.v)), j + 1)
        ELSE IF Ch(s, j) # "," \/ Ch(s, k) # "\"" THEN ParseError
        ELSE ParseObject(s, k + 1, SetKey(pairs, key.v.s, value.v))

\* JSONArray from i, the position of an element
ParseArray(s, i, values) ==
    LET value == ScanOnce(s, i)
        j == SkipWs(s, value.i)
    IN  IF ~value.ok THEN ParseError
        ELSE IF Ch(s, j) = "]" THEN Parsed(List(Append(values, value.v)), j + 1)
        ELSE IF Ch(s, j) # "," THEN ParseError
        ELSE ParseArray(s, SkipWs(s, j + 1), Append(values, value.v))

\* json.loads(s): ok = FALSE stands for JSONDecodeError
WholeDocument(s, r) ==
    IF r.ok /\ SkipWs(s, r.i) = Len(s) + 1 THEN r ELSE ParseError

Loads(s) == WholeDocument(s, ScanOnce(s, SkipWs(s, 1)))

RECURSIVE NatStr(_)
NatStr(n) ==
    IF n < 10 THEN SubSeq(DigitChars, n + 1, n + 1)
    ELSE NatStr(n \div 10) \o SubSeq(DigitChars, (n % 10) + 1, (n % 10) + 1)

IntStr(n) == IF n < 0 THEN "-" \o NatStr(-n) ELSE NatStr(n)

\* the digits of n, as many as d = 10^k has zeros, without trailing zeros
RECURSIVE FracStr(_, _)
FracStr(n, d) ==
    IF d <= 1 \/ n = 0 THEN ""
    ELSE NatStr((10 * n) \div d) \o FracStr((10 * n) % d, d)

\* float.__repr__ of n/d for d a power of ten, in positional notation (the
\* sign of a zero is not kept)
FloatStr(n, d) ==
    LET a == IF n < 0 THEN -n ELSE n
        frac == FracStr(a % d, d)
    IN  (IF n < 0 THEN "-" ELSE "") \o NatStr(a \div d) \o "."
        \o (IF frac = "" THEN "0" ELSE frac)

\* py_encode_basestring_ascii: the body of a string literal
RECURSIVE Escape(_, _)
Escape(s, i) ==
    LET c == Ch(s, i)
    IN  IF c = "" THEN ""
        ELSE (CASE c = "\"" -> "\\\""
                [] c = "\\" -> "\\\\"
                [] c = "\n" -> "\\n"
                [] c = "\r" -> "\\r"
                [] c = "\t" -> "\\t"
                [] OTHER -> c) \o Escape(s, i + 1)

RECURSIVE Dumps(_), DumpsItems(_, _), DumpsPairs(_, _)

\* json.dumps(v) with the default separators ", " and ": "
Dumps(v) ==
    CASE v.t = "None" -> "null"
      [] v.t = "bool" -> IF v.b THEN "true" ELSE "false"
      [] v.t = "num" -> IF v.f THEN FloatStr(v.n, v.d) ELSE IntStr(v.n)
      [] v.t = "nonfinite" -> v.name
      [] v.t = "str" -> "\"" \o Escape(v.s, 1) \o "\""
      [] v.t = "list" -> "[" \o DumpsItems(v.xs, 1) \o "]"
      [] v.t = "dict" -> "{" \o DumpsPairs(v.kv, 1) \o "}"

DumpsItems(xs, i) ==
    IF i > Len(xs) THEN ""
    ELSE (IF i > 1 THEN ", " ELSE "") \o Dumps(xs[i]) \o DumpsItems(xs, i + 1)

DumpsPairs(kv, i) ==
    IF i > Len(kv) THEN ""
    ELSE (IF i > 1 THEN ", " ELSE "") \o "\"" \o Escape(kv[i].k, 1) \o "\": "
         \o Dumps(kv[i].v) \o DumpsPairs(kv, i + 1)

\* s.replace(old, new) for a two-character old, left to right
RECURSIVE Replace2(_, _, _, _)
Replace2(s, old, new, i) ==
    IF i > Len(s) THEN ""
    ELSE IF Slice(s, i, i + 1) = old /\ i < Len(s)
    THEN new \o Replace2(s, old, new, i + 2)
    ELSE Ch(s, i) \o Replace2(s, old, new, i + 1)

----------------------------------------------------------------------------
(* Data sanitizer *)

DeniedKeys == {"ownerId", "userProfilePk", "permissionId", "userRoles",
               "equipmentTypeId"}

\* sub in k, for strings
Contains(k, sub) ==
    \E i \in 1..(Len(k) - Len(sub) + 1) : SubSeq(k, i, i + Len(sub) - 1) = sub

\* the key test without the substring test
KeepsKeyNoSubstring(k, v) ==
    /\ v.t # "None"
    /\ ~EqZero(v)
    /\ k \notin DeniedKeys

\* the test of a cleaned value without its comparison with 0
KeepsCleanedNotNone(v) == v.t # "None"

\* the dict branch returning the dict even when it is empty
DictAlways(cleaned_dict) == Dict(cleaned_dict)

\* the test of a key and its raw value in the dict branch
KeepsKey(k, v) ==
    /\ v.t # "None" /\ ~EqZero(v)
    /\ k \notin DeniedKeys
    /\ ~Contains(k, "endConditionCompare")

\* the test of a cleaned value, in the dict and in the list branch
KeepsCleaned(v) == v.t # "None" /\ ~EqZero(v)

\* return cleaned_dict if cleaned_dict else None
DictOrNone(cleaned_dict) == IF cleaned_dict # <<>> THEN Dict(cleaned_dict) ELSE None

RECURSIVE clean_garmin_data(_), CleanParsed(_, _), CleanDict(_, _), CleanList(_, _)

clean_garmin_data(data) ==
    IF data.t = "dict" THEN DictOrNone(CleanDict(data.kv, 1))
    ELSE IF data.t = "list" THEN List(CleanList(data.xs, 1))
    ELSE IF data.t = "str"
    THEN CleanParsed(data, Loads(Replace2(data.s, "\"\"", "\"", 1)))
    ELSE data

\* the try/except around json.loads in the string branch
CleanParsed(data, parsed_json) ==
    IF parsed_json.ok THEN clean_garmin_data(parsed_json.v) ELSE data

\* the loop over data.items() from the i-th pair on
CleanDict(kv, i) ==
    IF i > Len(kv) THEN <<>>
    ELSE LET cleaned_value == clean_garmin_data(kv[i].v)
         IN  IF KeepsKey(kv[i].k, kv[i].v) /\ KeepsCleaned(cleaned_value)
             THEN <<KV(kv[i].k, cleaned_value)>> \o CleanDict(kv, i + 1)
             ELSE CleanDict(kv, i + 1)

\* the two list comprehensions from the i-th element on
CleanList(xs, i) ==
    IF i > Len(xs) THEN <<>>
    ELSE LET item == clean_garmin_data(xs[i])
         IN  IF KeepsCleaned(item)
             THEN <<item>> \o CleanList(xs, i + 1)
             ELSE CleanList(xs, i + 1)

----------------------------------------------------------------------------
(* MFA state store *)

MFA_TTL_SECONDS == 5 * 60

\* time passes in steps of exactly one TTL or of one second more
ClockSteps == {MFA_TTL_SECONDS, MFA_TTL_SECONDS + 1}

NoItem == [state |-> 0, ts |-> -1]

\* a sweep that compares the age in the wrong unit
CleanupMillis(store, t) ==
    LET to_delete == {token \in DOMAIN store :
                          t - store[token].ts > MFA_TTL_SECONDS * 1000}
    IN  [token \in DOMAIN store \ to_delete |-> store[token]]

\* a sweep that also takes entries whose age is exactly the TTL
CleanupAtTtl(store, t) ==
    LET to_delete == {token \in DOMAIN store :
                          t - store[token].ts >= MFA_TTL_SECONDS}
    IN  [token \in DOMAIN store \ to_delete |-> store[token]]

\* _cleanup_mfa_cache: the store without the entries older than the TTL
CleanupMfaCache(store, t) ==
    LET to_delete == {token \in DOMAIN store :
                          t - store[token].ts > MFA_TTL_SECONDS}
    IN  [token \in DOMAIN store \ to_delete |-> store[token]]

\* a lookup that leaves the entry in the store
StoreGetKeeps(store, token) == store

\* MFA_STATE_STORE.pop(client_state, None): the store afterwards
StorePop(store, token) ==
    [k \in DOMAIN store \ {token} |-> store[k]]

\* MFA_STATE_STORE.pop(client_state, None): the value returned
StorePopItem(store, token) ==
    IF token \in DOMAIN store THEN store[token] ELSE NoItem

----------------------------------------------------------------------------
(* Exceptions and responses *)

HTTPException(status, detail) ==
    [type |-> "HTTPException", status |-> status, detail |-> detail]
ProviderErrors == {"GarthHTTPError", "GarthException", "Exception"}
ProviderExc(type) == [type |-> type, status |-> 0, detail |-> "e"]

\* str(e) of an exception as the f-strings of the handlers embed it
ExcStr(e) ==
    IF e.type = "HTTPException"
    THEN (IF e.status = 400 THEN "400: " ELSE "500: ") \o e.detail
    ELSE e.detail

Response(status, result, detail) ==
    [status |-> status, result |-> result, detail |-> detail]

\* the three except clauses every handler ends with: GarthHTTPError,
\* GarthException, then Exception, which also catches the handler's own
\* HTTPException
ExceptClauses(e, httpMsg, garthMsg) ==
    IF e.type = "GarthHTTPError"
    THEN Response(500, "error", httpMsg \o ExcStr(e))
    ELSE IF e.type = "GarthException"
    THEN Response(500, "error", garthMsg \o ExcStr(e))
    ELSE Response(500, "error", "An unexpected error occurred: " \o ExcStr(e))

----------------------------------------------------------------------------
(* POST /auth/garmin/login *)

\* a response of an auth endpoint as a client sees it, with the endpoint
\* and the challenge token the exchange is about
Sent(endpoint, token, r) ==
    [endpoint |-> endpoint, token |-> token,
     status |-> r.status, result |-> r.result, detail |-> r.detail]

LoginOutcomes == {"needs_mfa", "success"} \cup ProviderErrors

\* garmin_login: the handler has no await, so it runs as one step
Login(outcome) ==
    /\ outcome = "needs_mfa" => nextToken <= MaxTokens
    /\ IF outcome = "needs_mfa"
       THEN LET mfa_id == nextToken
                stored == [k \in DOMAIN MFA_STATE_STORE \cup {mfa_id} |->
                              \* result2, the continuation state of this
                              \* login, is named after the login that got it
                              IF k = mfa_id
                              THEN [state |-> mfa_id, ts |-> now]
                              ELSE MFA_STATE_STORE[k]]
            IN  /\ MFA_STATE_STORE' = CleanupMfaCache(stored, now)
                /\ nextToken' = nextToken + 1
                /\ lastResp' = Sent("login", mfa_id,
                                    Response(200, "needs_mfa", ""))
       ELSE /\ UNCHANGED <<MFA_STATE_STORE, nextToken>>
            /\ lastResp' = Sent("login", NoToken,
                 IF outcome = "success"
                 THEN Response(200, "success", "")
                 ELSE ExceptClauses(ProviderExc(outcome),
                                    "Garmin login error: ",
                                    "Failed to login to Garmin: "))
    /\ UNCHANGED <<now, ticks, inflight, resumeCalls, resumed, dataVars>>

----------------------------------------------------------------------------
(* POST /auth/garmin/resume_login *)

\* bodies with all three fields, and bodies that lack one of them
ResumeBodies ==
    [client_state : {BogusToken} \cup Tokens, mfa_code : {TRUE}, user_id : {TRUE}]
    \cup [client_state : {NoToken}, mfa_code : {TRUE}, user_id : {TRUE}]
    \cup [client_state : {1}, mfa_code : {FALSE}, user_id : {TRUE}]

InFlight == LET Sum[S \in SUBSET ResumeBodies] ==
                    IF S = {} THEN 0
                    ELSE LET x == CHOOSE x \in S : TRUE
                         IN  inflight[x] + Sum[S \ {x}]
            IN  Sum[ResumeBodies]

\* the request arrives; the handler suspends in `await request.json()`
ResumeReceive(b) ==
    /\ InFlight < NumResume
    /\ b.client_state \in Tokens => b.client_state < nextToken
    /\ inflight' = [inflight EXCEPT ![b] = @ + 1]
    /\ UNCHANGED <<now, ticks, MFA_STATE_STORE, nextToken, lastResp,
                   resumeCalls, resumed, dataVars>>

ResumeOutcomes == {"success"} \cup ProviderErrors

\* garmin_resume_login after the body is read: no await up to the return
ResumeHandle(b, outcome) ==
    /\ inflight[b] > 0
    /\ inflight' = [inflight EXCEPT ![b] = @ - 1]
    /\ LET item == StorePopItem(MFA_STATE_STORE, b.client_state)
       IN  IF b.client_state = NoToken \/ ~b.mfa_code \/ ~b.user_id
           THEN /\ lastResp' = Sent("resume", b.client_state,
                      ExceptClauses(
                          HTTPException(400, "Missing client_state, mfa_code, or user_id."),
                          "Garmin MFA error: ", "Failed to complete Garmin MFA: "))
                /\ UNCHANGED <<MFA_STATE_STORE, resumeCalls, resumed>>
           ELSE /\ MFA_STATE_STORE' = StorePop(MFA_STATE_STORE, b.client_state)
                /\ IF item = NoItem
                   THEN /\ lastResp' = Sent("resume", b.client_state,
                              ExceptClauses(
                                  HTTPException(400, "Invalid or expired mfa_token"),
                                  "Garmin MFA error: ", "Failed to complete Garmin MFA: "))
                        /\ UNCHANGED <<resumeCalls, resumed>>
                   ELSE \* garmin.resume_login(item["state"], mfa_code)
                        /\ resumeCalls' = [resumeCalls EXCEPT ![item.state] = @ + 1]
                        /\ resumed' = IF outcome = "success"
                                      THEN resumed \cup {item.state}
                                      ELSE resumed
                        /\ lastResp' = Sent("resume", b.client_state,
                              IF outcome = "success"
                              THEN Response(200, "success", "")
                              ELSE ExceptClauses(ProviderExc(outcome),
                                      "Garmin MFA error: ",
                                      "Failed to complete Garmin MFA: "))
    /\ UNCHANGED <<now, ticks, nextToken, dataVars>>

\* time passes between two handler steps
Tick(d) ==
    /\ ticks < MaxTicks
    /\ ticks' = ticks + 1
    /\ now' = now + d
    /\ UNCHANGED <<MFA_STATE_STORE, nextToken, inflight, lastResp,
                   resumeCalls, resumed, dataVars>>

----------------------------------------------------------------------------

InitMfa ==
    /\ now = 0
    /\ ticks = 0
    /\ MFA_STATE_STORE = <<>>
    /\ nextToken = 1
    /\ inflight = [b \in ResumeBodies |-> 0]
    /\ lastResp = [endpoint |-> "none", token |-> NoToken,
                   status |-> 0, result |-> "", detail |-> ""]
    /\ resumeCalls = [t \in Tokens |-> 0]
    /\ resumed = {}

----------------------------------------------------------------------------
(* Unit conversion layer *)

grams_to_kg(g) == Float(g.n, g.d * 1000)
meters_to_km(m) == Float(m.n, m.d * 1000)
seconds_to_minutes(sec) == Float(sec.n, sec.d * 60)

\* safe_convert(value, f) for f one of the three converters
safe_convert(value, f) ==
    IF value.t = "None" THEN None
    ELSE CASE f = "grams_to_kg" -> grams_to_kg(value)
           [] f = "meters_to_km" -> meters_to_km(value)
           [] f = "seconds_to_minutes" -> seconds_to_minutes(value)

----------------------------------------------------------------------------
(* Calendar dates *)

\* date.fromisoformat of a string YYYY-MM-DD
FromIso(s) ==
    [y |-> DigitsValue(s, 1, 5, 0), m |-> DigitsValue(s, 6, 8, 0),
     d |-> DigitsValue(s, 9, 11, 0)]

IsLeap(y) == (y % 4 = 0 /\ y % 100 # 0) \/ y % 400 = 0

DaysInMonth(y, m) ==
    IF m = 2 THEN (IF IsLeap(y) THEN 29 ELSE 28)
    ELSE IF m \in {4, 6, 9, 11} THEN 30 ELSE 31

\* current_date + timedelta(days=1)
NextDay(dt) ==
    IF dt.d < DaysInMonth(dt.y, dt.m) THEN [dt EXCEPT !.d = @ + 1]
    ELSE IF dt.m < 12 THEN [dt EXCEPT !.m = @ + 1, !.d = 1]
    ELSE [y |-> dt.y + 1, m |-> 1, d |-> 1]

DateLe(a, b) ==
    \/ a.y < b.y
    \/ a.y = b.y /\ a.m < b.m
    \/ a.y = b.y /\ a.m = b.m /\ a.d <= b.d

Pad2(n) == IF n < 10 THEN "0" \o NatStr(n) ELSE NatStr(n)
Pad4(n) == IF n < 1000 THEN "0" \o (IF n < 100 THEN "0" \o Pad2(n) ELSE NatStr(n))
           ELSE NatStr(n)

\* date.isoformat
IsoFormat(dt) == Pad4(dt.y) \o "-" \o Pad2(dt.m) \o "-" \o Pad2(dt.d)

RECURSIVE DatesFrom(_, _)
DatesFrom(current_date, end_date) ==
    IF DateLe(current_date, end_date)
    THEN <<IsoFormat(current_date)>> \o DatesFrom(NextDay(current_date), end_date)
    ELSE <<>>

get_dates_in_range(start_date_str, end_date_str) ==
    DatesFrom(FromIso(start_date_str), FromIso(end_date_str))

----------------------------------------------------------------------------
(* POST /data/health_and_wellness: the metric fetch orchestrator *)

ALL_HEALTH_METRICS ==
    <<"heart_rates", "sleep", "stress", "respiration", "spo2",
      "intensity_minutes", "training_readiness", "training_status", "max_metrics",
      "hrv", "lactate_threshold", "endurance_score", "hill_score", "race_predictions",
      "blood_pressure", "body_battery", "menstrual_data", "floors", "fitness_age",
      "body_composition">>

SeqToSet(sq) == {sq[i] : i \in 1..Len(sq)}

\* the kinds whose fetch is one get_user_summary call per date
SummaryKinds ==
    <<"steps", "total_distance", "highly_active_seconds", "active_seconds",
      "sedentary_seconds">>

\* the date-independent fetches, in the order the handler runs them
OnceFetches == <<"lactate_threshold", "race_predictions", "pregnancy_summary">>

\* the per-date fetches, in the order the loop body runs them
DailyFetches ==
    <<"user_summary", "floors", "fitness_age", "heart_rates", "sleep", "stress",
      "respiration", "spo2", "intensity_minutes", "training_readiness",
      "training_status", "max_metrics", "hrv", "endurance_score", "hill_score",
      "blood_pressure", "body_battery", "menstrual_data",
      "menstrual_calendar_data", "body_composition">>

\* the kinds whose record is {"date": ..., out: payload.get(in), ...}
FieldMap(kind) ==
    CASE kind = "floors" -> <<<<"floors_ascended", "totalFloorsAscended">>,
                              <<"floors_descended", "totalFloorsDescended">>>>
      [] kind = "fitness_age" -> <<<<"fitness_age", "fitnessAge">>,
                                   <<"chronological_age", "chronologicalAge">>,
                                   <<"achievable_fitness_age", "achievableFitnessAge">>>>
      [] kind = "heart_rates" -> <<<<"resting_heart_rate", "restingHeartRate">>>>
      [] kind = "sleep" -> <<<<"sleep_duration", "durationInSeconds">>>>
      [] kind = "stress" -> <<<<"stress_level", "overallStressLevel">>,
                              <<"stress_duration_total", "totalStressDuration">>,
                              <<"stress_duration_rest", "restStressDuration">>,
                              <<"stress_duration_activity", "activityStressDuration">>,
                              <<"stress_duration_uncategorized", "uncategorizedStressDuration">>,
                              <<"stress_duration_low", "lowStressDuration">>,
                              <<"stress_duration_medium", "mediumStressDuration">>,
                              <<"stress_duration_high", "highStressDuration">>,
                              <<"stress_percentage_low", "lowStressPercentage">>,
                              <<"stress_percentage_medium", "mediumStressPercentage">>,
                              <<"stress_percentage_high", "highStressPercentage">>>>
      [] kind = "respiration" -> <<<<"average_respiration_rate", "avgRespiration">>>>
      [] kind = "spo2" -> <<<<"average_spo2", "avgSpO2">>>>
      [] kind = "intensity_minutes" -> <<<<"total_intensity_minutes", "total">>>>
      [] kind = "training_readiness" -> <<<<"training_readiness_score", "score">>>>
      [] kind = "training_status" -> <<<<"status", "status">>>>
      [] kind = "max_metrics" -> <<<<"vo2_max", "vo2Max">>>>
      [] kind = "endurance_score" -> <<<<"score", "score">>>>
      [] kind = "hill_score" -> <<<<"overall", "overall">>>>
      [] OTHER -> <<>>

SummaryField(kind) ==
    CASE kind = "steps" -> <<"totalSteps", "">>
      [] kind = "total_distance" -> <<"totalDistance", "meters_to_km">>
      [] kind = "highly_active_seconds" -> <<"highlyActiveSeconds", "seconds_to_minutes">>
      [] kind = "active_seconds" -> <<"activeSeconds", "seconds_to_minutes">>
      [] kind = "sedentary_seconds" -> <<"sedentarySeconds", "seconds_to_minutes">>

\* whether the handler runs the fetch for these metric_types_to_fetch
Wanted(fetch, metric_types) ==
    IF fetch = "user_summary"
    THEN \E i \in 1..Len(SummaryKinds) : SummaryKinds[i] \in metric_types
    ELSE fetch \in metric_types

\* one append to health_data[kind]
Put(kind, rec) == [kind |-> kind, rec |-> rec]
Raised(appends) == [raised |-> TRUE, appends |-> appends]
Appended(appends) == [raised |-> FALSE, appends |-> appends]

\* payload.get(k, {}).get(k2): raises when payload[k] is no dict
NestedGet(payload, k, k2) ==
    LET inner == IF HasKey(payload, k) THEN Get(payload, k) ELSE Dict(<<>>)
    IN  IF inner.t = "dict" THEN [raised |-> FALSE, v |-> Get(inner, k2)]
        ELSE [raised |-> TRUE, v |-> None]

RECURSIVE FieldPairs(_, _, _)
FieldPairs(fields, payload, i) ==
    IF i > Len(fields) THEN <<>>
    ELSE <<KV(fields[i][1], Get(payload, fields[i][2]))>>
         \o FieldPairs(fields, payload, i + 1)

RECURSIVE SummaryPuts(_, _, _, _)
SummaryPuts(metric_types, current_date, summary_data, i) ==
    IF i > Len(SummaryKinds) THEN <<>>
    ELSE LET kind == SummaryKinds[i]
             raw == Get(summary_data, SummaryField(kind)[1])
             value == IF SummaryField(kind)[2] = "" THEN raw
                      ELSE safe_convert(raw, SummaryField(kind)[2])
         IN  (IF kind \in metric_types
              THEN <<Put(kind, Dict(<<KV("date", Str(current_date)),
                                      KV("value", value)>>))>>
              ELSE <<>>)
             \o SummaryPuts(metric_types, current_date, summary_data, i + 1)

RECURSIVE RacePuts(_, _, _)
RacePuts(predictions, start_date, i) ==
    IF i > Len(predictions) THEN <<>>
    ELSE (IF Get(predictions[i], "raceType") = Str("FIVE_K")
          THEN <<Put("race_predictions",
                     Dict(<<KV("date", Str(start_date)),
                            KV("race_prediction_5k",
                               Get(predictions[i], "predictedTime"))>>))>>
          ELSE <<>>)
         \o RacePuts(predictions, start_date, i + 1)

\* str() of a value inside an f-string, for the ints and None of a reading
PyStr(v) == IF v.t = "num" THEN IntStr(v.n) ELSE "None"

RECURSIVE MeasurementPuts(_, _, _)
MeasurementPuts(measurements, current_date, i) ==
    IF i > Len(measurements) THEN <<>>
    ELSE LET bp_entry == measurements[i]
             systolic == Get(bp_entry, "systolic")
             diastolic == Get(bp_entry, "diastolic")
             pulse == Get(bp_entry, "pulse")
         IN  (IF systolic.t # "None" /\ diastolic.t # "None" /\ pulse.t # "None"
              THEN <<Put("blood_pressure",
                         Dict(<<KV("date", Str(current_date)),
                                KV("value", Str(PyStr(systolic) \o "/"
                                                \o PyStr(diastolic) \o ", "
                                                \o PyStr(pulse) \o " bpm"))>>))>>
              ELSE <<>>)
             \o MeasurementPuts(measurements, current_date, i + 1)

RECURSIVE BloodPressurePuts(_, _, _)
BloodPressurePuts(summaries, current_date, i) ==
    IF i > Len(summaries) THEN <<>>
    ELSE (IF Truthy(Get(summaries[i], "measurements"))
          THEN MeasurementPuts(Get(summaries[i], "measurements").xs, current_date, 1)
          ELSE <<>>)
         \o BloodPressurePuts(summaries, current_date, i + 1)

RECURSIVE BodyBatteryPuts(_, _, _)
BodyBatteryPuts(entries, current_date, i) ==
    IF i > Len(entries) THEN <<>>
    ELSE <<Put("body_battery",
               Dict(<<KV("date", Str(current_date)),
                      KV("highest", Get(entries[i], "highest")),
                      KV("lowest", Get(entries[i], "lowest")),
                      KV("atWake", Get(entries[i], "atWake")),
                      KV("charged", Get(entries[i], "charged")),
                      KV("drained", Get(entries[i], "drained"))>>))>>
         \o BodyBatteryPuts(entries, current_date, i + 1)

RECURSIVE BodyCompositionPuts(_, _)
BodyCompositionPuts(entries, i) ==
    IF i > Len(entries) THEN <<>>
    ELSE <<Put("body_composition",
               Dict(<<KV("date", Get(entries[i], "date")),
                      KV("weight", safe_convert(Get(entries[i], "weight"), "grams_to_kg")),
                      KV("body_fat_percentage", Get(entries[i], "bodyFat")),
                      KV("bmi", Get(entries[i], "bmi")),
                      KV("body_water_percentage", Get(entries[i], "bodyWater")),
                      KV("bone_mass", Get(entries[i], "boneMass")),
                      KV("muscle_mass", Get(entries[i], "muscleMass"))>>))>>
         \o BodyCompositionPuts(entries, i + 1)

\* the body of one fetch's try block once the Provider has returned payload:
\* the appends it makes, in order, and whether it raises before the first one
FetchBody(fetch, metric_types, start_date, current_date, payload) ==
    IF fetch = "lactate_threshold"
    THEN IF ~Truthy(payload) THEN Appended(<<>>)
         ELSE LET hr == NestedGet(payload, "speed_and_heart_rate", "heartRate")
              IN  IF hr.raised THEN Raised(<<>>)
                  ELSE Appended(<<Put(fetch,
                          Dict(<<KV("date", Str(start_date)),
                                 KV("lactate_threshold_hr", hr.v)>>))>>)
    ELSE IF fetch = "race_predictions"
    THEN IF ~Truthy(payload) THEN Appended(<<>>)
         ELSE Appended(RacePuts(
                  IF HasKey(payload, "racePredictionList")
                  THEN Get(payload, "racePredictionList").xs ELSE <<>>,
                  start_date, 1))
    ELSE IF fetch = "pregnancy_summary"
    THEN IF ~Truthy(payload) THEN Appended(<<>>)
         ELSE Appended(<<Put(fetch, Dict(<<KV("date", Str(start_date)),
                                           KV("data", payload)>>))>>)
    ELSE IF fetch = "user_summary"
    THEN IF ~Truthy(payload) THEN Appended(<<>>)
         ELSE Appended(SummaryPuts(metric_types, current_date, payload, 1))
    ELSE IF FieldMap(fetch) # <<>>
    THEN IF ~Truthy(payload) THEN Appended(<<>>)
         ELSE Appended(<<Put(fetch,
                  Dict(<<KV("date", Str(current_date))>>
                       \o FieldPairs(FieldMap(fetch), payload, 1)))>>)
    ELSE IF fetch = "hrv"
    THEN IF ~Truthy(payload) THEN Appended(<<>>)
         ELSE LET avg == NestedGet(payload, "hrvSummary", "weeklyAvg")
              IN  IF avg.raised THEN Raised(<<>>)
                  ELSE Appended(<<Put(fetch,
                          Dict(<<KV("date", Str(current_date)),
                                 KV("average_overnight_hrv", avg.v)>>))>>)
    ELSE IF fetch = "blood_pressure"
    THEN IF Truthy(payload) /\ Truthy(Get(payload, "measurementSummaries"))
         THEN Appended(BloodPressurePuts(Get(payload, "measurementSummaries").xs,
                                         current_date, 1))
         ELSE Appended(<<>>)
    ELSE IF fetch = "body_battery"
    THEN IF Truthy(payload) /\ payload.t = "list" /\ Len(payload.xs) > 0
         THEN Appended(BodyBatteryPuts(payload.xs, current_date, 1))
         ELSE Appended(<<>>)
    ELSE IF fetch \in {"menstrual_data", "menstrual_calendar_data"}
    THEN IF ~Truthy(payload) THEN Appended(<<>>)
         ELSE Appended(<<Put(fetch, Dict(<<KV("date", Str(current_date)),
                                           KV("data", payload)>>))>>)
    ELSE \* body_composition
         IF Truthy(payload) /\ Truthy(Get(payload, "dateWeightList"))
         THEN Appended(BodyCompositionPuts(Get(payload, "dateWeightList").xs, 1))
         ELSE Appended(<<>>)

\* health_data[kind].append(rec)
ListAppend(hd, kind, rec) ==
    Dict([i \in 1..Len(hd.kv) |->
             IF hd.kv[i].k = kind
             THEN KV(kind, List(Append(hd.kv[i].v.xs, rec)))
             ELSE hd.kv[i]])

\* the appends of one try block applied in order; health_data[kind] of a kind
\* that is no key of health_data raises KeyError and ends the block
RECURSIVE ApplyPuts(_, _, _)
ApplyPuts(hd, puts, i) ==
    IF i > Len(puts) THEN hd
    ELSE IF ~HasKey(hd, puts[i].kind) THEN hd
    ELSE ApplyPuts(ListAppend(hd, puts[i].kind, puts[i].rec), puts, i + 1)

\* a fetch whose failure is not caught and ends the request
TryFetchUncaught(hd, fetch, metric_types, start_date, current_date, result) ==
    IF result.fail
    THEN [hd |-> hd, exc |-> "Exception"]
    ELSE [hd |-> ApplyPuts(hd, FetchBody(fetch, metric_types, start_date,
                                         current_date, result.payload).appends, 1),
          exc |-> ""]

\* one try/except block of the handler: the Provider call, then the body;
\* `except Exception` swallows whatever either raises
TryFetch(hd, fetch, metric_types, start_date, current_date, result) ==
    IF result.fail
    THEN [hd |-> hd, exc |-> ""]
    ELSE [hd |-> ApplyPuts(hd, FetchBody(fetch, metric_types, start_date,
                                         current_date, result.payload).appends, 1),
          exc |-> ""]

\* health_data = {metric: [] for metric in ALL_HEALTH_METRICS}
EmptyHealthData ==
    Dict([i \in 1..Len(ALL_HEALTH_METRICS) |-> KV(ALL_HEALTH_METRICS[i], List(<<>>))])

Unit(fetch, current_date) == [fetch |-> fetch, date |-> current_date]

RECURSIVE PlanOnce(_, _), PlanDay(_, _, _), PlanDays(_, _, _)
PlanOnce(metric_types, i) ==
    IF i > Len(OnceFetches) THEN <<>>
    ELSE (IF Wanted(OnceFetches[i], metric_types)
          THEN <<Unit(OnceFetches[i], "")>> ELSE <<>>)
         \o PlanOnce(metric_types, i + 1)

PlanDay(metric_types, current_date, i) ==
    IF i > Len(DailyFetches) THEN <<>>
    ELSE (IF Wanted(DailyFetches[i], metric_types)
          THEN <<Unit(DailyFetches[i], current_date)>> ELSE <<>>)
         \o PlanDay(metric_types, current_date, i + 1)

PlanDays(metric_types, dates_to_fetch, i) ==
    IF i > Len(dates_to_fetch) THEN <<>>
    ELSE PlanDay(metric_types, dates_to_fetch[i], 1)
         \o PlanDays(metric_types, dates_to_fetch, i + 1)

\* metric_types_to_fetch of a request
MetricTypesToFetch(req) ==
    IF req.metric_types # {} THEN req.metric_types ELSE SeqToSet(ALL_HEALTH_METRICS)

\* the Provider calls the handler makes after the login, in order
FetchPlan(req) ==
    PlanOnce(MetricTypesToFetch(req), 1)
    \o PlanDays(MetricTypesToFetch(req),
                get_dates_in_range(req.start_date, req.end_date), 1)

\* the end of the handler: sanitize, drop the empty kinds, answer
RECURSIVE NonEmptyPairs(_, _)
NonEmptyPairs(kv, i) ==
    IF i > Len(kv) THEN <<>>
    ELSE (IF Truthy(kv[i].v) THEN <<kv[i]>> ELSE <<>>) \o NonEmptyPairs(kv, i + 1)

FilterEmpty(cleaned_health_data) ==
    IF cleaned_health_data.t # "dict"
    THEN [exc |-> "Exception", data |-> None]
    ELSE [exc |-> "", data |-> Dict(NonEmptyPairs(cleaned_health_data.kv, 1))]

FinalHealthData(hd) == FilterEmpty(clean_garmin_data(hd))

----------------------------------------------------------------------------
(* The Provider's documents *)

RECURSIVE DocPairs(_, _)
DocPairs(fields, i) ==
    IF i > Len(fields) THEN <<>>
    ELSE <<KV(fields[i][2], Num(40 + i))>> \o DocPairs(fields, i + 1)

\* what a Provider fetch returns: "full" is a complete document, "sparse" a
\* document whose fields are missing, null or zero, "empty" no document
Payload(fetch, variant, current_date) ==
    IF variant = "empty" THEN None
    ELSE IF fetch = "lactate_threshold"
    THEN IF variant = "full"
         THEN Dict(<<KV("speed_and_heart_rate",
                        Dict(<<KV("heartRate", Num(165)), KV("ownerId", Num(7))>>))>>)
         ELSE Dict(<<KV("speed_and_heart_rate", None)>>)
    ELSE IF fetch = "race_predictions"
    THEN IF variant = "full"
         THEN Dict(<<KV("racePredictionList",
                        List(<<Dict(<<KV("raceType", Str("TEN_K")),
                                      KV("predictedTime", Num(3000))>>),
                               Dict(<<KV("raceType", Str("FIVE_K")),
                                      KV("predictedTime", Num(1500))>>)>>))>>)
         ELSE Dict(<<KV("racePredictionList", List(<<>>))>>)
    ELSE IF fetch \in {"pregnancy_summary", "menstrual_data", "menstrual_calendar_data"}
    THEN IF variant = "full"
         THEN Dict(<<KV("dayInCycle", Num(3)), KV("userProfilePk", Num(7))>>)
         ELSE Dict(<<KV("userProfilePk", Num(7))>>)
    ELSE IF fetch = "user_summary"
    THEN IF variant = "full"
         THEN Dict(<<KV("totalSteps", Num(9000)), KV("totalDistance", Num(7000)),
                     KV("highlyActiveSeconds", Num(600)),
                     KV("activeSeconds", Num(1200)),
                     KV("sedentarySeconds", Num(0))>>)
         ELSE Dict(<<KV("totalSteps", Num(0))>>)
    ELSE IF fetch = "training_status"
    THEN IF variant = "full" THEN Dict(<<KV("status", Str("PRODUCTIVE"))>>)
         ELSE Dict(<<KV("status", None)>>)
    ELSE IF FieldMap(fetch) # <<>>
    THEN IF variant = "full" THEN Dict(DocPairs(FieldMap(fetch), 1))
         ELSE Dict(<<KV(FieldMap(fetch)[1][2], Num(0))>>)
    ELSE IF fetch = "hrv"
    THEN IF variant = "full"
         THEN Dict(<<KV("hrvSummary", Dict(<<KV("weeklyAvg", Num(55))>>))>>)
         ELSE Dict(<<KV("hrvSummary", None)>>)
    ELSE IF fetch = "blood_pressure"
    THEN IF variant = "full"
         THEN Dict(<<KV("measurementSummaries",
                  List(<<Dict(<<KV("measurements",
                      List(<<Dict(<<KV("systolic", Num(120)), KV("diastolic", Num(80)),
                                    KV("pulse", Num(60))>>),
                             Dict(<<KV("systolic", Num(130)),
                                    KV("pulse", Num(70))>>)>>))>>)>>))>>)
         ELSE Dict(<<KV("measurementSummaries",
                  List(<<Dict(<<KV("measurements", List(<<>>))>>)>>))>>)
    ELSE IF fetch = "body_battery"
    THEN IF variant = "full"
         THEN List(<<Dict(<<KV("highest", Num(90)), KV("lowest", Num(20)),
                            KV("atWake", Num(80)), KV("charged", Num(60)),
                            KV("drained", Num(0))>>)>>)
         ELSE Dict(<<KV("highest", Num(90))>>)
    ELSE \* body_composition
         IF variant = "full"
         THEN Dict(<<KV("dateWeightList",
                  List(<<Dict(<<KV("date", Str(current_date)),
                                KV("weight", Num(70500)), KV("bodyFat", Num(18)),
                                KV("bmi", Num(22))>>)>>))>>)
         ELSE Dict(<<KV("dateWeightList",
                  List(<<Dict(<<KV("date", Str(current_date))>>)>>))>>)

FetchOutcomes == {"full", "sparse", "empty", "fail"}

\* the Provider's answer to a fetch, as the handler sees it
FetchResult(fetch, outcome, current_date) ==
    IF outcome = "fail" THEN [fail |-> TRUE, payload |-> None]
    ELSE [fail |-> FALSE, payload |-> Payload(fetch, outcome, current_date)]

----------------------------------------------------------------------------
(* Requests of POST /data/health_and_wellness *)

RECURSIVE AddDays(_, _)
AddDays(dt, k) == IF k <= 0 THEN dt ELSE AddDays(NextDay(dt), k - 1)

StartDates == {"2024-02-28", "2023-12-31"}

\* the date ranges of up to MaxDays days, and one whose end precedes its start
DateRanges ==
    {[start_date |-> s, end_date |-> IsoFormat(AddDays(FromIso(s), k))] :
        s \in StartDates, k \in 0..(MaxDays - 1)}
    \cup {[start_date |-> "2024-03-01", end_date |-> "2024-02-29"]}

MetricTypeLists ==
    {{"sleep", "stress"}, {"steps", "sleep"},
     {"lactate_threshold", "race_predictions", "hrv"},
     {"blood_pressure", "body_battery", "body_composition"},
     {"pregnancy_summary", "menstrual_data", "total_distance"}}

HealthRequest(user_id, tokens, range, metric_types) ==
    [user_id |-> user_id, tokens |-> tokens, start_date |-> range.start_date,
     end_date |-> range.end_date, metric_types |-> metric_types]

OneDay == [start_date |-> "2024-02-29", end_date |-> "2024-02-29"]

\* well-formed requests, the request for all kinds on one day, and the
\* requests with one required field empty
HealthRequests ==
    {HealthRequest("u1", "tok", r, m) : r \in DateRanges, m \in MetricTypeLists}
    \cup {HealthRequest("u1", "tok", OneDay, {})}
    \cup {HealthRequest("", "tok", OneDay, {"sleep"}),
          HealthRequest("u1", "", OneDay, {"sleep"}),
          [HealthRequest("u1", "tok", OneDay, {"sleep"}) EXCEPT !.start_date = ""],
          [HealthRequest("u1", "tok", OneDay, {"sleep"}) EXCEPT !.end_date = ""]}

\* not user_id or not tokens_b64 or not start_date or not end_date
MissingField(req) ==
    req.user_id = "" \/ req.tokens = "" \/ req.start_date = "" \/ req.end_date = ""

MissingMsg == "Missing user_id, tokens, start_date, or end_date."

DataResponse(status, detail, data) ==
    [status |-> status, detail |-> detail, data |-> data]

\* the response the except clauses of a data endpoint make of an exception
DataError(e, garthMsg) ==
    LET r == ExceptClauses(e, "Garmin API error: ", garthMsg)
    IN  DataResponse(r.status, r.detail, None)

HealthGarthMsg == "Failed to retrieve health and wellness data: "

NumDisturbed(outcomes) ==
    Cardinality({i \in 1..Len(outcomes) : outcomes[i] # "full"})

\* the handler up to the first fetch: validation, then the token login
HealthStart(req, login) ==
    /\ hPc = "idle"
    /\ hReq' = req
    /\ hOutcomes' = <<>>
    /\ IF MissingField(req)
       THEN /\ login = "ok"
            /\ hResp' = DataError(HTTPException(400, MissingMsg), HealthGarthMsg)
            /\ hPc' = "done"
            /\ UNCHANGED <<health_data, hCalls>>
       ELSE /\ hCalls' = hCalls + 1
            /\ IF login = "ok"
               THEN /\ health_data' = EmptyHealthData
                    /\ hPc' = "fetch"
                    /\ UNCHANGED hResp
               ELSE /\ hResp' = DataError(ProviderExc(login), HealthGarthMsg)
                    /\ hPc' = "done"
                    /\ UNCHANGED health_data
    /\ UNCHANGED <<mfaVars, actVars, restVars>>

TryUnit(hd, req, unit, outcome) ==
    TryFetch(hd, unit.fetch, MetricTypesToFetch(req), req.start_date, unit.date,
             FetchResult(unit.fetch, outcome, unit.date))

\* the handler after a try block: on to the next one, or out through the
\* except clauses when the block let an exception through
AfterFetch(r) ==
    /\ health_data' = r.hd
    /\ IF r.exc = ""
       THEN UNCHANGED <<hPc, hResp>>
       ELSE /\ hPc' = "done"
            /\ hResp' = DataError(ProviderExc(r.exc), HealthGarthMsg)

\* the next try block of the handler
HealthFetch(outcome) ==
    /\ hPc = "fetch"
    /\ Len(hOutcomes) < Len(FetchPlan(hReq))
    /\ outcome # "full" => NumDisturbed(hOutcomes) < MaxDisturb
    /\ AfterFetch(TryUnit(health_data, hReq, FetchPlan(hReq)[Len(hOutcomes) + 1],
                          outcome))
    /\ hOutcomes' = Append(hOutcomes, outcome)
    /\ hCalls' = hCalls + 1
    /\ UNCHANGED <<hReq, mfaVars, actVars, restVars>>

HealthAnswer(final) ==
    IF final.exc = "" THEN DataResponse(200, "", final.data)
    ELSE DataError(ProviderExc(final.exc), HealthGarthMsg)

\* after the last fetch: sanitize, drop the empty kinds, answer
HealthReturn ==
    /\ hPc = "fetch"
    /\ Len(hOutcomes) = Len(FetchPlan(hReq))
    /\ hResp' = HealthAnswer(FinalHealthData(health_data))
    /\ hPc' = "done"
    /\ UNCHANGED <<hReq, health_data, hOutcomes, hCalls, mfaVars, actVars,
                   restVars>>

InitHealth ==
    /\ hPc = "idle"
    /\ hReq = HealthRequest("", "", OneDay, {})
    /\ health_data = None
    /\ hOutcomes = <<>>
    /\ hResp = DataResponse(0, "", None)
    /\ hCalls = 0

----------------------------------------------------------------------------
(* POST /data/activities_and_workouts: the activity detail expander *)

LowerChars == "abcdefghijklmnopqrstuvwxyz"
UpperChars == "ABCDEFGHIJKLMNOPQRSTUVWXYZ"

IndexIn(chars, c) ==
    IF \E i \in 1..Len(chars) : Ch(chars, i) = c
    THEN CHOOSE i \in 1..Len(chars) : Ch(chars, i) = c
    ELSE 0

\* str.title(): a letter that follows a non-letter in upper case, every
\* other letter in lower case
RECURSIVE Title(_, _, _)
Title(s, i, afterLetter) ==
    IF i > Len(s) THEN ""
    ELSE LET c == Ch(s, i)
             lo == IndexIn(LowerChars, c)
             up == IndexIn(UpperChars, c)
         IN  IF lo = 0 /\ up = 0 THEN c \o Title(s, i + 1, FALSE)
             ELSE (IF afterLetter
                   THEN Ch(LowerChars, IF lo # 0 THEN lo ELSE up)
                   ELSE Ch(UpperChars, IF lo # 0 THEN lo ELSE up))
                  \o Title(s, i + 1, TRUE)

\* s.replace(old, new) for a one-character old
RECURSIVE Replace1(_, _, _, _)
Replace1(s, old, new, i) ==
    IF i > Len(s) THEN ""
    ELSE (IF Ch(s, i) = old THEN new ELSE Ch(s, i)) \o Replace1(s, old, new, i + 1)

\* activity['activityName'] from activityType.typeKey when it is missing
NameFromTypeKey(activity) ==
    LET activityType == IF HasKey(activity, "activityType")
                        THEN Get(activity, "activityType") ELSE Dict(<<>>)
        typeKey == Get(activityType, "typeKey")
    IN  IF ~Truthy(Get(activity, "activityName")) /\ Truthy(typeKey)
        THEN Dict(SetKey(activity.kv, "activityName",
                         Str(Title(Replace1(typeKey.s, "_", " ", 1), 1, FALSE))))
        ELSE activity

SetConverted(activity, k, f) ==
    Dict(SetKey(activity.kv, k, safe_convert(Get(activity, k), f)))

\* convert_activities_units for one activity of the list
ConvertActivity(activity) ==
    SetConverted(
        SetConverted(
            SetConverted(
                SetConverted(activity, "distance", "meters_to_km"),
                "duration", "seconds_to_minutes"),
            "elapsedDuration", "seconds_to_minutes"),
        "movingDuration", "seconds_to_minutes")

convert_activities_units(activities) ==
    [i \in 1..Len(activities) |-> ConvertActivity(activities[i])]

\* the six detail fetches, in the order the handler makes them
DetailFields ==
    <<"details", "splits", "weather", "hr_in_timezones", "exercise_sets", "gear">>

\* json.dumps(clean_garmin_data(x)) if x else None
DetailValue(x) == IF Truthy(x) THEN Str(Dumps(clean_garmin_data(x))) ELSE None

RECURSIVE DetailPairs(_, _)
DetailPairs(docs, i) ==
    IF i > Len(DetailFields) THEN <<>>
    ELSE <<KV(DetailFields[i], DetailValue(docs[i].payload))>>
         \o DetailPairs(docs, i + 1)

AnyFails(docs) == \E i \in 1..Len(docs) : docs[i].fail

\* the first fetch that throws
FirstFail(docs) == CHOOSE i \in 1..Len(docs) : docs[i].fail /\ \A j \in 1..(i - 1) : ~docs[j].fail

\* an expander that keeps the details fetched before the fetch that throws
ExpandActivityPartial(activity, docs) ==
    IF AnyFails(docs)
    THEN Dict(<<KV("activity", activity)>>
              \o SubSeq(DetailPairs(docs, 1), 1, FirstFail(docs) - 1))
    ELSE Dict(<<KV("activity", activity)>> \o DetailPairs(docs, 1))

\* the try block of one activity: the six fetches, then the record with
\* the six details; any exception leaves the record with the activity only
ExpandActivity(activity, docs) ==
    IF AnyFails(docs)
    THEN Dict(<<KV("activity", activity)>>)
    ELSE Dict(<<KV("activity", activity)>> \o DetailPairs(docs, 1))

\* Provider calls one try block makes: up to the first fetch that throws
FetchesMade(docs) == IF AnyFails(docs) THEN FirstFail(docs) ELSE Len(docs)

\* the workouts loop: the detail document of each workout, or the listed
\* workout when its fetch throws
DetailedWorkouts(workouts, wdocs) ==
    [i \in 1..Len(workouts) |->
        IF wdocs[i].fail THEN workouts[i] ELSE wdocs[i].payload]

----------------------------------------------------------------------------
(* The Provider's activities and their documents *)

\* the i-th activity of the list call; every second one has no name
ActivityDoc(i) ==
    Dict((IF i % 2 = 1 THEN <<KV("activityName", Str("Morning Run"))>> ELSE <<>>)
         \o <<KV("activityId", Num(100 + i)),
              KV("activityType", Dict(<<KV("typeKey", Str("trail_running")),
                                        KV("typeId", Num(6))>>)),
              KV("startTimeLocal", Str("2024-02-29 07:00:00")),
              KV("distance", Num(5000)),
              KV("duration", Num(1800)),
              KV("movingDuration", Num(0)),
              KV("ownerId", Num(7))>>)

ActivityList(n) == [i \in 1..n |-> ActivityDoc(i)]

\* a complete detail document of each kind
DetailDoc(field, activity_id) ==
    CASE field = "details" ->
           Dict(<<KV("activityId", Num(activity_id)), KV("ownerId", Num(7)),
                  KV("summary", Str("easy run"))>>)
      [] field = "splits" ->
           Dict(<<KV("lapDTOs", List(<<Dict(<<KV("distance", Num(1000)),
                                             KV("elevationGain", Num(0))>>)>>))>>)
      [] field = "weather" ->
           Dict(<<KV("temp", Num(61)), KV("note", Str(""))>>)
      [] field = "hr_in_timezones" ->
           List(<<Dict(<<KV("zoneNumber", Num(1)), KV("secsInZone", Num(300))>>)>>)
      [] field = "exercise_sets" ->
           Dict(<<KV("activityId", Num(activity_id)), KV("exerciseSets", None)>>)
      [] field = "gear" ->
           List(<<Dict(<<KV("uuid", Str("g1")), KV("displayName", Str("Shoes"))>>)>>)

\* a document that holds nothing but an internal id
HollowDoc == List(<<Dict(<<KV("userProfilePk", Num(7))>>)>>)

DetailOutcomes == {"doc", "hollow", "none", "fail"}

DetailResult(field, outcome, activity_id) ==
    CASE outcome = "fail" -> [fail |-> TRUE, payload |-> None]
      [] outcome = "doc" -> [fail |-> FALSE, payload |-> DetailDoc(field, activity_id)]
      [] outcome = "hollow" -> [fail |-> FALSE, payload |-> HollowDoc]
      [] outcome = "none" -> [fail |-> FALSE, payload |-> None]

\* what the six fetches of one activity do
DetailDocs(outcomes, activity_id) ==
    [i \in 1..Len(DetailFields) |->
        DetailResult(DetailFields[i], outcomes[i], activity_id)]

NumOdd(outcomes) == Cardinality({i \in 1..Len(outcomes) : outcomes[i] # "doc"})

RECURSIVE SumOdd(_, _)
SumOdd(history, i) ==
    IF i > Len(history) THEN 0 ELSE NumOdd(history[i]) + SumOdd(history, i + 1)

DetailOutcomeRows == [1..Len(DetailFields) -> DetailOutcomes]

\* the workouts the Provider lists, and what the detail fetch of each does
ListedWorkout == Dict(<<KV("workoutId", Num(9)), KV("workoutName", Str("Intervals"))>>)
WorkoutDetail ==
    Dict(<<KV("workoutId", Num(9)), KV("workoutName", Str("Intervals")),
           KV("endConditionCompareValue", Num(3)), KV("estimatedDuration", Num(1200))>>)
WorkoutOutcomes == {"fail", "none", "detail", "detail_fail"}

ActivitiesRequest(user_id, tokens, range) ==
    [user_id |-> user_id, tokens |-> tokens, start_date |-> range.start_date,
     end_date |-> range.end_date]

ActivitiesRequests ==
    {ActivitiesRequest("u1", "tok", OneDay),
     ActivitiesRequest("", "tok", OneDay),
     ActivitiesRequest("u1", "", OneDay),
     [ActivitiesRequest("u1", "tok", OneDay) EXCEPT !.start_date = ""],
     [ActivitiesRequest("u1", "tok", OneDay) EXCEPT !.end_date = ""]}

\* what get_activities_by_date does: it throws, or lists n activities
NoList == [fail |-> TRUE, n |-> 0]
ListOutcomes == {NoList} \cup [fail : {FALSE}, n : 0..MaxActivities]

ActivitiesGarthMsg == "Failed to retrieve activities and workouts: "

ActivitiesResponse(status, detail, acts, wkts) ==
    [status |-> status, detail |-> detail, activities |-> acts, workouts |-> wkts]

ActivitiesError(e) ==
    LET r == ExceptClauses(e, "Garmin API error: ", ActivitiesGarthMsg)
    IN  ActivitiesResponse(r.status, r.detail, None, None)

\* the handler up to the detail loop: validation, the token login, the list
\* call, the names, the unit conversion
ActivitiesStart(req, login, listed) ==
    /\ aPc = "idle"
    /\ aReq' = req
    /\ aOutcomes' = <<>>
    /\ detailed_activities' = <<>>
    /\ UNCHANGED aWorkouts
    /\ IF MissingField(req)
       THEN /\ login = "ok" /\ listed = NoList
            /\ aResp' = ActivitiesError(HTTPException(400, MissingMsg))
            /\ aPc' = "done"
            /\ UNCHANGED <<converted_activities, aCalls>>
       ELSE IF login # "ok"
       THEN /\ listed = NoList
            /\ aCalls' = aCalls + 1
            /\ aResp' = ActivitiesError(ProviderExc(login))
            /\ aPc' = "done"
            /\ UNCHANGED converted_activities
       ELSE /\ aCalls' = aCalls + 2
            /\ IF listed.fail
               THEN /\ aResp' = ActivitiesError(ProviderExc("GarthHTTPError"))
                    /\ aPc' = "done"
                    /\ UNCHANGED converted_activities
               ELSE /\ converted_activities' =
                          convert_activities_units(
                              [i \in 1..listed.n |->
                                  NameFromTypeKey(ActivityList(listed.n)[i])])
                    /\ aPc' = "detail"
                    /\ UNCHANGED aResp
    /\ UNCHANGED <<mfaVars, healthVars, restVars>>

\* one pass of the detail loop
ActivityDetail(outcomes) ==
    /\ aPc = "detail"
    /\ Len(detailed_activities) < Len(converted_activities)
    /\ SumOdd(aOutcomes, 1) + NumOdd(outcomes) <= MaxDisturb
    /\ LET activity == converted_activities[Len(detailed_activities) + 1]
           docs == DetailDocs(outcomes, Get(activity, "activityId").n)
       IN  /\ detailed_activities' =
                 Append(detailed_activities, ExpandActivity(activity, docs))
           /\ aCalls' = aCalls + FetchesMade(docs)
    /\ aOutcomes' = Append(aOutcomes, outcomes)
    /\ UNCHANGED <<aPc, aReq, converted_activities, aWorkouts, aResp, mfaVars,
                   healthVars, restVars>>

\* after the detail loop: the workouts, the sanitizer, the answer
ActivitiesReturn(w) ==
    /\ aPc = "detail"
    /\ Len(detailed_activities) = Len(converted_activities)
    /\ aPc' = "done"
    /\ aWorkouts' = w
    /\ IF w = "fail"
       THEN /\ aResp' = ActivitiesError(ProviderExc("GarthHTTPError"))
            /\ aCalls' = aCalls + 1
       ELSE LET workouts == IF w = "none" THEN <<>> ELSE <<ListedWorkout>>
                wdocs == [i \in 1..Len(workouts) |->
                             IF w = "detail_fail"
                             THEN [fail |-> TRUE, payload |-> None]
                             ELSE [fail |-> FALSE, payload |-> WorkoutDetail]]
                cleaned_activities == clean_garmin_data(List(detailed_activities))
                cleaned_workouts ==
                    clean_garmin_data(List(DetailedWorkouts(workouts, wdocs)))
            IN  /\ aResp' = ActivitiesResponse(200, "", cleaned_activities,
                                               cleaned_workouts)
                /\ aCalls' = aCalls + 1 + Len(workouts)
    /\ UNCHANGED <<aReq, converted_activities, detailed_activities, aOutcomes,
                   mfaVars, healthVars, restVars>>

InitActivities ==
    /\ aPc = "idle"
    /\ aReq = ActivitiesRequest("", "", OneDay)
    /\ converted_activities = <<>>
    /\ detailed_activities = <<>>
    /\ aOutcomes = <<>>
    /\ aWorkouts = ""
    /\ aResp = ActivitiesResponse(0, "", None, None)
    /\ aCalls = 0

----------------------------------------------------------------------------
(* Inputs of the data sanitizer *)

\* scalars: null, the booleans, zero and non-zero ints and floats, and
\* strings, some of which hold JSON
Scalars ==
    {None, Bool(TRUE), Bool(FALSE), Num(0), Num(7), Num(-3), Float(0, 10),
     Float(25, 10), Str(""), Str("run"), Str("0"), Str("false"), Str("null"),
     Str("[0, 0]"), Str("{\"ownerId\": 5}"), Str("\"\"[0]\"\"")}

\* the elements and values the generated sequences and mappings hold
Atoms == {None, Bool(FALSE), Num(0), Num(7)}

\* the keys of the generated mappings: a kept one, a denied one, and one
\* containing the denied substring
SanitizerKeys == {"a", "ownerId", "xendConditionCompareY"}

\* the sequences of up to n atoms
RECURSIVE AtomSeqs(_)
AtomSeqs(n) ==
    IF n = 0 THEN {<<>>}
    ELSE AtomSeqs(n - 1)
         \cup {Append(xs, v) : xs \in {ys \in AtomSeqs(n - 1) : Len(ys) = n - 1},
                               v \in Atoms}

\* the mappings of up to n keys, each key at most once
RECURSIVE AtomPairs(_)
AtomPairs(n) ==
    IF n = 0 THEN {<<>>}
    ELSE AtomPairs(n - 1)
         \cup {Append(kv, KV(k, v)) :
                  kv \in {p \in AtomPairs(n - 1) : Len(p) = n - 1},
                  k \in SanitizerKeys, v \in Atoms}

DistinctKeys(kv) == \A i, j \in 1..Len(kv) : kv[i].k = kv[j].k => i = j

FlatValues ==
    Scalars
    \cup {List(xs) : xs \in AtomSeqs(MaxLen)}
    \cup {Dict(kv) : kv \in {p \in AtomPairs(MaxLen) : DistinctKeys(p)}}

\* a value inside a sequence, inside a mapping under each key, next to a
\* kept key, and serialized into a string
Wrapped(v) ==
    {List(<<v>>), List(<<Num(0), v>>), Str(Dumps(v)),
     Dict(<<KV("a", Num(7)), KV("b", v)>>)}
    \cup {Dict(<<KV(k, v)>>) : k \in SanitizerKeys \cup DeniedKeys}

\* strings holding a string that holds JSON
TwiceSerialized ==
    {Str(Dumps(Str(Dumps(v)))) :
        v \in Scalars \cup {List(<<Num(0), Num(7)>>), Dict(<<KV("a", Num(0))>>),
                            Dict(<<KV("a", Num(7)), KV("ownerId", Num(7))>>)}}

SanitizerInputs ==
    FlatValues \cup UNION {Wrapped(v) : v \in FlatValues} \cup TwiceSerialized

----------------------------------------------------------------------------
(* clean_garmin_data applied to a value, and to its own result *)

Sanitize(x) ==
    /\ sPc = "idle"
    /\ sIn' = x
    /\ sOut' = clean_garmin_data(x)
    /\ sPc' = "cleaned"
    /\ UNCHANGED <<sTwice, mfaVars, healthVars, actVars, loopVars>>

SanitizeAgain ==
    /\ sPc = "cleaned"
    /\ sTwice' = clean_garmin_data(sOut)
    /\ sPc' = "recleaned"
    /\ UNCHANGED <<sIn, sOut, mfaVars, healthVars, actVars, loopVars>>

InitSanitizer ==
    /\ sPc = "idle"
    /\ sIn = None
    /\ sOut = None
    /\ sTwice = None

----------------------------------------------------------------------------
(* The server: uvicorn.run(app) and the handlers' coroutines *)

Requests == 1..NumRequests

NoTask == 0

Endpoints == {"root", "health", "activities", "login", "resume_login"}

\* how many Provider calls a handler of the endpoint can make: none for
\* the root, garmin.login() or garmin.resume_login() alone for the auth
\* endpoints, the token login and the fetches for the data endpoints
CallsOf(endpoint) ==
    CASE endpoint = "root" -> {0}
      [] endpoint \in {"login", "resume_login"} -> {1}
      [] OTHER -> 1..MaxProviderCalls

everythingElse == <<mfaVars, healthVars, actVars, sanVars>>

\* a client's request reaches the listening socket
Arrive(r, endpoint) ==
    /\ rPc[r] = "none"
    /\ rPc' = [rPc EXCEPT ![r] = "queued"]
    /\ rEndpoint' = [rEndpoint EXCEPT ![r] = endpoint]
    /\ UNCHANGED <<loopTask, rCalls, everythingElse>>

\* the event loop, running no handler, starts the handler of a request:
\* resume_login runs up to its await request.json(), the others have no
\* await and keep the loop
Dispatch(r, n) ==
    /\ loopTask = NoTask
    /\ rPc[r] = "queued"
    /\ n \in CallsOf(rEndpoint[r])
    /\ rCalls' = [rCalls EXCEPT ![r] = n]
    /\ IF rEndpoint[r] = "resume_login"
       THEN /\ rPc' = [rPc EXCEPT ![r] = "awaiting"]
            /\ UNCHANGED loopTask
       ELSE /\ rPc' = [rPc EXCEPT ![r] = "running"]
            /\ loopTask' = r
    /\ UNCHANGED <<rEndpoint, everythingElse>>

\* the event loop, running no handler, resumes the handler whose
\* await request.json() has its body
ResumeAwait(r) ==
    /\ loopTask = NoTask
    /\ rPc[r] = "awaiting"
    /\ rPc' = [rPc EXCEPT ![r] = "running"]
    /\ loopTask' = r
    /\ UNCHANGED <<rEndpoint, rCalls, everythingElse>>

\* the running handler calls the Provider: a plain call, the thread of the
\* event loop waits in it
CallProvider(r) ==
    /\ loopTask = r
    /\ rPc[r] = "running"
    /\ rCalls[r] > 0
    /\ rPc' = [rPc EXCEPT ![r] = "inProvider"]
    /\ UNCHANGED <<loopTask, rEndpoint, rCalls, everythingElse>>

\* the Provider call returns, or raises into an except clause that goes on
ProviderReturns(r) ==
    /\ rPc[r] = "inProvider"
    /\ rPc' = [rPc EXCEPT ![r] = "running"]
    /\ rCalls' = [rCalls EXCEPT ![r] = @ - 1]
    /\ UNCHANGED <<loopTask, rEndpoint, everythingElse>>

\* the Provider call raises into an except clause that ends the handler
ProviderRaises(r) ==
    /\ rPc[r] = "inProvider"
    /\ rPc' = [rPc EXCEPT ![r] = "running"]
    /\ rCalls' = [rCalls EXCEPT ![r] = 0]
    /\ UNCHANGED <<loopTask, rEndpoint, everythingElse>>

\* the handler returns or raises its HTTPException: the loop is free
Respond(r) ==
    /\ loopTask = r
    /\ rPc[r] = "running"
    /\ rCalls[r] = 0
    /\ rPc' = [rPc EXCEPT ![r] = "done"]
    /\ loopTask' = NoTask
    /\ UNCHANGED <<rEndpoint, rCalls, everythingElse>>

InitServer ==
    /\ loopTask = NoTask
    /\ rPc = [r \in Requests |-> "none"]
    /\ rEndpoint = [r \in Requests |-> ""]
    /\ rCalls = [r \in Requests |-> 0]

----------------------------------------------------------------------------
(* The service *)

Init ==
    InitMfa /\ InitHealth /\ InitActivities /\ InitSanitizer /\ InitServer

\* the auth endpoints
Next ==
    \/ \E o \in LoginOutcomes : Login(o)
    \/ \E b \in ResumeBodies : ResumeReceive(b)
    \/ \E b \in ResumeBodies, o \in ResumeOutcomes : ResumeHandle(b, o)
    \/ \E d \in ClockSteps : Tick(d)

Spec == Init /\ [][Next]_vars

\* one request of POST /data/health_and_wellness
NextHealth ==
    \/ \E req \in HealthRequests, login \in {"ok"} \cup ProviderErrors :
          HealthStart(req, login)
    \/ \E outcome \in FetchOutcomes : HealthFetch(outcome)
    \/ HealthReturn

SpecHealth == Init /\ [][NextHealth]_vars

\* one request of POST /data/activities_and_workouts
NextActivities ==
    \/ \E req \in ActivitiesRequests, login \in {"ok"} \cup ProviderErrors,
           listed \in ListOutcomes : ActivitiesStart(req, login, listed)
    \/ \E outcomes \in DetailOutcomeRows : ActivityDetail(outcomes)
    \/ \E w \in WorkoutOutcomes : ActivitiesReturn(w)

SpecActivities == Init /\ [][NextActivities]_vars

\* clean_garmin_data run on one value, then on what it returned
NextSanitizer ==
    \/ \E x \in SanitizerInputs : Sanitize(x)
    \/ SanitizeAgain

SpecSanitizer == Init /\ [][NextSanitizer]_vars

\* the requests in flight on the server's one event loop
NextServer ==
    \/ \E r \in Requests, endpoint \in Endpoints : Arrive(r, endpoint)
    \/ \E r \in Requests, n \in 0..MaxProviderCalls : Dispatch(r, n)
    \/ \E r \in Requests : ResumeAwait(r)
    \/ \E r \in Requests : CallProvider(r)
    \/ \E r \in Requests : ProviderReturns(r)
    \/ \E r \in Requests : ProviderRaises(r)
    \/ \E r \in Requests : Respond(r)

SpecServer == Init /\ [][NextServer]_vars

----------------------------------------------------------------------------
(* Properties of the MFA handshake *)

\* the step handles an in-flight resume_login request with body b
HandleStep(b) == inflight'[b] = inflight[b] - 1

\* the step is a login request
LoginStep == lastResp'.endpoint = "login" /\ inflight' = inflight /\ now' = now

Complete(b) == b.client_state # NoToken /\ b.mfa_code /\ b.user_id

Expired(store, token, t) == t - store[token].ts > MFA_TTL_SECONDS

InvalidOrExpired ==
    "An unexpected error occurred: 400: Invalid or expired mfa_token"

\* C1: once a resume_login with challenge token T has succeeded, every later
\* resume_login with T is answered with HTTP status 400 and the Provider's
\* resume is not invoked for T again.
C1_SingleConsumption400 ==
    [][\A b \in ResumeBodies :
          (HandleStep(b) /\ Complete(b) /\ b.client_state \in resumed)
          => (lastResp'.status = 400 /\ resumeCalls' = resumeCalls)]_vars

\* C2 as stated: an entry leaves the store only in a resume_login that
\* succeeds or in a sweep of an entry older than the TTL.
C2_LeavesOnlyOnSuccessOrSweep ==
    [][\A t \in DOMAIN MFA_STATE_STORE :
          t \notin DOMAIN MFA_STATE_STORE'
          => \/ \E b \in ResumeBodies :
                   /\ HandleStep(b) /\ b.client_state = t
                   /\ lastResp'.status = 200
             \/ LoginStep /\ Expired(MFA_STATE_STORE, t, now)]_vars

\* C2 as amended: an entry leaves the store only in a resume_login that looks
\* its token up and hands its state to the Provider, whatever the Provider
\* then answers, or in a sweep of an entry older than the TTL; after any
\* resume_login that reached the Provider the entry is gone.
C2_LeavesOnLookupOrSweep ==
    [][/\ \A t \in DOMAIN MFA_STATE_STORE :
             t \notin DOMAIN MFA_STATE_STORE'
             => \/ \E b \in ResumeBodies :
                      /\ HandleStep(b) /\ b.client_state = t
                      /\ resumeCalls'[t] = resumeCalls[t] + 1
                \/ LoginStep /\ Expired(MFA_STATE_STORE, t, now)
       /\ \A t \in Tokens :
             resumeCalls'[t] # resumeCalls[t]
             => t \notin DOMAIN MFA_STATE_STORE']_vars

\* a resume_login whose Provider step failed has taken the entry with it
C2_Witness ==
    \E t \in Tokens :
        /\ lastResp.endpoint = "resume" /\ lastResp.token = t
        /\ lastResp.status = 500 /\ resumeCalls[t] = 1
        /\ t \notin resumed /\ t \notin DOMAIN MFA_STATE_STORE

\* C3: a resume_login whose token names an entry older than the TTL is
\* rejected and the Provider's resume is not called, swept or not.
C3_ExpiredNeverResumed ==
    [][\A b \in ResumeBodies :
          (/\ HandleStep(b) /\ Complete(b)
           /\ b.client_state \in DOMAIN MFA_STATE_STORE
           /\ Expired(MFA_STATE_STORE, b.client_state, now))
          => (resumeCalls' = resumeCalls /\ lastResp'.status # 200)]_vars

NoStaleEntry(store, t) == \A k \in DOMAIN store : ~Expired(store, k, t)

\* C4 as stated: after every login request, whatever its outcome, no entry
\* older than the TTL is left in the store.
C4_EveryLoginSweeps ==
    [][LoginStep => NoStaleEntry(MFA_STATE_STORE', now')]_vars

\* C4 as amended: after a login request that ends in needs_mfa no entry
\* older than the TTL is left in the store; a login request with any other
\* outcome leaves the store as it was.
C4_NeedsMfaLoginSweeps ==
    [][LoginStep =>
          IF lastResp'.result = "needs_mfa"
          THEN NoStaleEntry(MFA_STATE_STORE', now')
          ELSE MFA_STATE_STORE' = MFA_STATE_STORE]_vars

\* a needs_mfa login has swept an entry that no resume_login ever asked for
C4_Witness ==
    /\ lastResp.endpoint = "login" /\ lastResp.result = "needs_mfa"
    /\ \E t \in Tokens :
          /\ t < nextToken /\ t \notin DOMAIN MFA_STATE_STORE
          /\ resumeCalls[t] = 0

\* C5: of the resume_login requests that carry one token at most one gets
\* the stored state and reaches the Provider's resume; each of the others
\* is answered that the token is invalid or expired.
C5_SingleConsumer ==
    /\ [](\A t \in Tokens : resumeCalls[t] <= 1)
    /\ [][\A b \in ResumeBodies :
             (/\ HandleStep(b) /\ Complete(b) /\ b.client_state \in Tokens
              /\ resumeCalls[b.client_state] >= 1)
             => (resumeCalls' = resumeCalls /\ lastResp'.detail = InvalidOrExpired)]_vars

\* with no time passed (so no sweep), one request has consumed the token and
\* another one carrying it has been turned away
C5_Witness ==
    \E t \in Tokens :
        /\ ticks = 0 /\ resumeCalls[t] = 1
        /\ lastResp.endpoint = "resume" /\ lastResp.token = t
        /\ lastResp.detail = InvalidOrExpired

----------------------------------------------------------------------------
(* Properties of POST /data/health_and_wellness *)

\* every name a caller can ask for that some fetch of the handler feeds
KindNames ==
    SeqToSet(ALL_HEALTH_METRICS) \cup SeqToSet(SummaryKinds)
    \cup {"pregnancy_summary", "menstrual_calendar_data"}

\* the fetch whose records go to kind K
Feeds(fetch, K) == fetch = K \/ (fetch = "user_summary" /\ K \in SeqToSet(SummaryKinds))

\* the records of kind K in a response's data
Records(data, K) == IF HasKey(data, K) THEN Get(data, K).xs ELSE <<>>

\* health_data had no fetch failed: a failed fetch returns its full document
RECURSIVE NoFailRun(_, _, _, _)
NoFailRun(req, outcomes, i, hd) ==
    IF i > Len(outcomes) THEN hd
    ELSE LET unit == FetchPlan(req)[i]
             payload == Payload(unit.fetch,
                                IF outcomes[i] = "fail" THEN "full" ELSE outcomes[i],
                                unit.date)
         IN  NoFailRun(req, outcomes, i + 1,
                 ApplyPuts(hd, FetchBody(unit.fetch, MetricTypesToFetch(req),
                                         req.start_date, unit.date, payload).appends, 1))

\* the dates D for which the fetch of kind K failed; a date-independent
\* fetch files its record under the start date
FailedDates(req, outcomes, K) ==
    {IF FetchPlan(req)[i].date = "" THEN req.start_date ELSE FetchPlan(req)[i].date :
        i \in {j \in 1..Len(outcomes) :
                  outcomes[j] = "fail" /\ Feeds(FetchPlan(req)[j].fetch, K)}}

RecordDate(rec) == Get(rec, "date").s

\* the request passed validation and the token login and has been answered
HealthAnswered == hPc = "done" /\ health_data # None

\* C6: whatever fetches fail after the token login, the request is answered
\* 200, and for every kind K the records returned are those the request
\* would have returned had no fetch failed, less the records of K for the
\* dates on which K's fetch failed.
C6_FaultIsolation ==
    HealthAnswered =>
        /\ hResp.status = 200
        /\ LET noFail == FinalHealthData(
                             NoFailRun(hReq, hOutcomes, 1, EmptyHealthData)).data
           IN  \A K \in KindNames :
                 Records(hResp.data, K) =
                   SelectSeq(Records(noFail, K),
                             LAMBDA rec : RecordDate(rec) \notin
                                            FailedDates(hReq, hOutcomes, K))

\* over two days the sleep fetch fails on the first: the data has the sleep
\* record of the second day only and the stress records of both
C6_Witness ==
    /\ HealthAnswered
    /\ hReq.metric_types = {"sleep", "stress"}
    /\ hOutcomes = <<"fail", "full", "full", "full">>
    /\ Len(Records(hResp.data, "stress")) = 2
    /\ Len(Records(hResp.data, "sleep")) = 1
    /\ RecordDate(Records(hResp.data, "sleep")[1]) = hReq.end_date
    /\ hReq.end_date # hReq.start_date

\* C8: a request with user_id, tokens, start_date or end_date empty is
\* answered 400 and no Provider call is made for it.
C8_MissingField400 ==
    (hPc = "done" /\ MissingField(hReq)) => (hResp.status = 400 /\ hCalls = 0)

----------------------------------------------------------------------------
(* Properties of POST /data/activities_and_workouts *)

\* the request has been answered with the activities and the workouts
ActivitiesAnswered == aPc = "done" /\ aResp.status = 200

\* the detail loop has run and the workouts call after it has not thrown
DetailLoopDone == aPc = "done" /\ aWorkouts \notin {"", "fail"}

Throws(outcomes) == \E f \in 1..Len(outcomes) : outcomes[f] = "fail"

\* the record the response would hold for an activity listed alone
AloneRecord(activity, outcomes) ==
    clean_garmin_data(List(<<Dict(<<KV("activity", activity)>>
        \o DetailPairs(DetailDocs(outcomes, Get(activity, "activityId").n), 1))>>)).xs[1]

\* C7: when one of the six detail fetches of an activity throws, the record
\* of that activity holds the base activity and no detail field; the records
\* of the other activities are what they are without that failure, and the
\* request is answered 200.
C7_DetailAllOrNothing ==
    DetailLoopDone =>
        /\ aResp.status = 200
        /\ Len(aResp.activities.xs) = Len(converted_activities)
        /\ \A i \in 1..Len(converted_activities) :
             IF Throws(aOutcomes[i])
             THEN aResp.activities.xs[i] =
                      Dict(<<KV("activity", clean_garmin_data(converted_activities[i]))>>)
             ELSE aResp.activities.xs[i] =
                      AloneRecord(converted_activities[i], aOutcomes[i])

\* the gear fetch of the first of two activities throws after its five other
\* fetches have succeeded: its record has the activity only, the second
\* activity has its details
C7_Witness ==
    /\ ActivitiesAnswered
    /\ Len(aOutcomes) = 2
    /\ aOutcomes[1] = <<"doc", "doc", "doc", "doc", "doc", "fail">>
    /\ ~Throws(aOutcomes[2])
    /\ Len(aResp.activities.xs[1].kv) = 1
    /\ HasKey(aResp.activities.xs[1], "activity")
    /\ HasKey(aResp.activities.xs[2], "details")

\* C9: every detail field present on an activity record of the response is
\* a string.
C9_DetailsAreStrings ==
    ActivitiesAnswered =>
        \A i \in 1..Len(aResp.activities.xs), f \in 1..Len(DetailFields) :
            HasKey(aResp.activities.xs[i], DetailFields[f])
                => Get(aResp.activities.xs[i], DetailFields[f]).t = "str"

EmptyValues == {None, List(<<>>), Dict(<<>>)}

\* C10: every listed activity has a record with its base activity, and a
\* detail field is present on a record only if its fetch succeeded with a
\* document whose sanitized content is non-empty; a present field is never
\* an empty sequence, an empty mapping or null.
C10_ActivityRecordInvariant ==
    ActivitiesAnswered =>
        /\ Len(aResp.activities.xs) = Len(converted_activities)
        /\ \A i \in 1..Len(aResp.activities.xs) :
             /\ HasKey(aResp.activities.xs[i], "activity")
             /\ \A f \in 1..Len(DetailFields) :
                  HasKey(aResp.activities.xs[i], DetailFields[f]) =>
                    /\ ~Throws(aOutcomes[i])
                    /\ aOutcomes[i][f] # "none"
                    /\ clean_garmin_data(
                           DetailDocs(aOutcomes[i],
                               Get(converted_activities[i], "activityId").n)[f].payload)
                         \notin EmptyValues
                    /\ Get(aResp.activities.xs[i], DetailFields[f]) \notin EmptyValues

----------------------------------------------------------------------------
(* Properties of the data sanitizer *)

\* C11: sanitizing is idempotent: for every value, clean_garmin_data of
\* the result of clean_garmin_data is that result.
C11_Idempotent == sPc = "recleaned" => sTwice = sOut

\* a string holding JSON was parsed and cleaned into a mapping, and the
\* mapping was cleaned again
C11_Witness ==
    /\ sPc = "recleaned"
    /\ sIn.t = "str"
    /\ sOut.t = "dict"
    /\ sTwice.t = "dict"

IsDeniedKey(k) == k \in DeniedKeys \/ Contains(k, "endConditionCompare")

\* some mapping of v, at any depth, has a denied key
RECURSIVE ShowsDeniedKey(_)
ShowsDeniedKey(v) ==
    CASE v.t = "dict" ->
            \E i \in 1..Len(v.kv) :
                IsDeniedKey(v.kv[i].k) \/ ShowsDeniedKey(v.kv[i].v)
      [] v.t = "list" -> \E i \in 1..Len(v.xs) : ShowsDeniedKey(v.xs[i])
      [] OTHER -> FALSE

\* C12: no mapping of the sanitizer's output, at any depth, has a key of
\* the denylist or a key containing 'endConditionCompare'; mappings parsed
\* out of strings are part of the output and are covered.
C12_NoDeniedKey == sPc # "idle" => ~ShowsDeniedKey(sOut)

\* a string held a mapping with a denied key next to a kept one, and the
\* output is the mapping with the kept key
C12_Witness ==
    /\ sPc = "cleaned"
    /\ sIn.t = "str"
    /\ Loads(sIn.s).ok
    /\ Loads(sIn.s).v.t = "dict"
    /\ \E i \in 1..Len(Loads(sIn.s).v.kv) :
           /\ IsDeniedKey(Loads(sIn.s).v.kv[i].k)
           /\ Loads(sIn.s).v.kv[i].v = Num(7)
    /\ sOut.t = "dict"

\* clean_garmin_data drops v from the mapping or sequence holding it
Vanishes(v) ==
    v.t = "None" \/ EqZero(v) \/ ~KeepsCleaned(clean_garmin_data(v))

\* every pair of the mapping is removed
AllPairsRemoved(v) ==
    /\ v.t = "dict"
    /\ \A i \in 1..Len(v.kv) : IsDeniedKey(v.kv[i].k) \/ Vanishes(v.kv[i].v)

\* every element of the sequence is removed
AllItemsRemoved(v) ==
    /\ v.t = "list"
    /\ \A i \in 1..Len(v.xs) : Vanishes(v.xs[i])

\* C13: a mapping whose pairs are all removed sanitizes to None and its
\* key is dropped from the parent mapping; a sequence whose elements are
\* all removed sanitizes to [] and its key is kept, holding [].
C13_ZeroVsEmpty ==
    sPc # "idle" =>
        /\ AllPairsRemoved(sIn) => sOut = None
        /\ AllItemsRemoved(sIn) => sOut = List(<<>>)
        /\ sIn.t = "dict" =>
             \A i \in 1..Len(sIn.kv) :
                 ~IsDeniedKey(sIn.kv[i].k) =>
                     /\ AllPairsRemoved(sIn.kv[i].v)
                            => sOut = None \/ ~HasKey(sOut, sIn.kv[i].k)
                     /\ AllItemsRemoved(sIn.kv[i].v)
                            => /\ sOut.t = "dict"
                               /\ Get(sOut, sIn.kv[i].k) = List(<<>>)

\* a mapping with a kept key, and a key whose mapping lost every pair
C13_Witness ==
    /\ sPc = "cleaned"
    /\ sIn.t = "dict"
    /\ Len(sIn.kv) = 2
    /\ sIn.kv[2].v.t = "dict"
    /\ sIn.kv[2].v.kv # <<>>
    /\ AllPairsRemoved(sIn.kv[2].v)
    /\ sOut = Dict(<<sIn.kv[1]>>)

\* C14: a boolean or a non-zero number is returned as it is, and a boolean
\* held by a sequence or under a key of a mapping, false included, is kept
\* with its value.
C14_BooleansKept ==
    sPc # "idle" =>
        /\ sIn.t = "bool" => sOut = sIn
        /\ (sIn.t = "num" /\ sIn.n # 0) => sOut = sIn
        /\ sIn.t = "list" =>
             \A i \in 1..Len(sIn.xs) :
                 sIn.xs[i].t = "bool" =>
                     \E j \in 1..Len(sOut.xs) : sOut.xs[j] = sIn.xs[i]
        /\ sIn.t = "dict" =>
             \A i \in 1..Len(sIn.kv) :
                 (sIn.kv[i].v.t = "bool" /\ ~IsDeniedKey(sIn.kv[i].k)) =>
                     /\ sOut.t = "dict"
                     /\ Get(sOut, sIn.kv[i].k) = sIn.kv[i].v

----------------------------------------------------------------------------
(* Properties of the date range *)

RECURSIVE DaysBeforeMonth(_, _)
DaysBeforeMonth(y, m) ==
    IF m = 1 THEN 0 ELSE DaysBeforeMonth(y, m - 1) + DaysInMonth(y, m - 1)

\* the number of the day of an ISO date, counted from 2000-01-01
DayNumber(s) ==
    365 * (FromIso(s).y - 2000)
    + Cardinality({k \in 2000..(FromIso(s).y - 1) : IsLeap(k)})
    + DaysBeforeMonth(FromIso(s).y, FromIso(s).m)
    + FromIso(s).d

\* dates_to_fetch of the request being handled
RequestDates == get_dates_in_range(hReq.start_date, hReq.end_date)

\* the positions of the fetches made at which the fetch was of f for date d
FetchesOf(f, d) ==
    {j \in 1..Len(hOutcomes) : FetchPlan(hReq)[j] = Unit(f, d)}

\* C15: for every request the health endpoint answers with data, the date
\* range runs from start_date to end_date inclusive in ascending order with
\* no date left out, it has (end_date - start_date).days + 1 dates and at
\* least one, and each wanted per-day fetch is made exactly once per date.
C15_DateRange ==
    HealthAnswered =>
        /\ Len(RequestDates)
               = DayNumber(hReq.end_date) - DayNumber(hReq.start_date) + 1
        /\ Len(RequestDates) >= 1
        /\ RequestDates[1] = hReq.start_date
        /\ RequestDates[Len(RequestDates)] = hReq.end_date
        /\ \A i \in 1..(Len(RequestDates) - 1) :
               DayNumber(RequestDates[i + 1]) = DayNumber(RequestDates[i]) + 1
        /\ \A f \in 1..Len(DailyFetches), i \in 1..Len(RequestDates) :
               Wanted(DailyFetches[f], MetricTypesToFetch(hReq))
                   => Cardinality(FetchesOf(DailyFetches[f], RequestDates[i])) = 1

----------------------------------------------------------------------------
(* Properties of the response data *)

\* some fetch feeding kind K was made and returned its full document
FetchedInFull(K) ==
    \E j \in 1..Len(hOutcomes) :
        Feeds(FetchPlan(hReq)[j].fetch, K) /\ hOutcomes[j] = "full"

\* C17: every requested kind the handler has a fetch branch for, whose
\* fetch succeeded with a document holding its mapped fields non-null and
\* non-zero, is a key of the response data.
C17_FetchedKindReturned ==
    (HealthAnswered /\ hResp.status = 200) =>
        \A K \in KindNames \cap MetricTypesToFetch(hReq) :
            FetchedInFull(K) => HasKey(hResp.data, K)

----------------------------------------------------------------------------
(* Properties of the server *)

\* the next step of the handler of request r
StepOf(r) ==
    \/ \E n \in 0..MaxProviderCalls : Dispatch(r, n)
    \/ ResumeAwait(r)
    \/ CallProvider(r)
    \/ ProviderReturns(r)
    \/ ProviderRaises(r)
    \/ Respond(r)

\* C16: while the handler of one request is inside a Provider call, every
\* other request that has arrived and is not yet answered can take its
\* next step.
C16_RequestIndependence ==
    \A a, b \in Requests :
        (a # b /\ rPc[a] = "inProvider" /\ rPc[b] \notin {"none", "done"})
            => ENABLED StepOf(b)

====
